---------------------------- MODULE Spec2Model ----------------------------
(***************************************************************************)
(* The cached, cancellation-aware HTTP client of the Lighthouse CRM        *)
(* front-end (utils/api: apiRequest, clearCache, cancelAllRequests).       *)
(*                                                                         *)
(* The client runs on one JavaScript event loop.  A call to apiRequest     *)
(* runs synchronously up to `await fetch`; the network's answer and the    *)
(* decoded body arrive as later tasks; the rejection of an aborted fetch   *)
(* is delivered as a microtask, before any later task.  Strings are        *)
(* sequences of one-character strings, so that includes(), split(':') and  *)
(* substring(0, 20) are computed as the code computes them.                *)
(***************************************************************************)
EXTENDS Integers, Sequences, FiniteSets, TLC

(***************************************************************************)
(* Bounds of the model.                                                    *)
(***************************************************************************)
MaxCalls == 3
MaxTicks == 1
MaxClears == 1

(***************************************************************************)
(* Program constants.                                                      *)
(***************************************************************************)
CACHE_TTL == 30000
AuthHashLen == 20

(***************************************************************************)
(* String literals of the program and of its callers.                      *)
(***************************************************************************)
EmptyStr == << >>
GET == <<"G", "E", "T">>
POST == <<"P", "O", "S", "T">>
Colon == <<":">>
Dash == <<"-">>
BearerPrefix == <<"B", "e", "a", "r", "e", "r", " ">>
NoAuth == <<"n", "o", "-", "a", "u", "t", "h">>
ZeroDot == <<"0", ".">>
ApiLeads == <<"/", "a", "p", "i", "/", "l", "e", "a", "d", "s">>
ApiLeads123 == ApiLeads \o <<"/", "1", "2", "3">>
ApiContacts == <<"/", "a", "p", "i", "/", "c", "o", "n", "t", "a", "c", "t", "s">>
TokenAbc == <<"a", "b", "c">>
\* two tokens that agree in their first 13 characters
JwtHead == <<"e", "y", "J", "h", "b", "G", "c", "i", "O", "i", "J", "I", "U">>
TokenJwtA == JwtHead \o <<"z", "A">>
TokenJwtB == JwtHead \o <<"z", "B">>
KeyDup == <<"d", "u", "p">>
KeyDup2 == KeyDup \o <<":", "2">>
MsgCancelled == "Request cancelled"
MsgUserAborted == "The user aborted a request."
HttpPrefix == "HTTP "

(***************************************************************************)
(* String functions.                                                       *)
(***************************************************************************)
Min(a, b) == IF a < b THEN a ELSE b

\* String.prototype.substring(0, n)
Substring0(s, n) == SubSeq(s, 1, Min(n, Len(s)))

\* String.prototype.includes(p)
Includes(s, p) ==
    \E i \in 0..(Len(s) - Len(p)) : SubSeq(s, i + 1, i + Len(p)) = p

Digit(d) ==
    CASE d = 0 -> "0" [] d = 1 -> "1" [] d = 2 -> "2" [] d = 3 -> "3"
      [] d = 4 -> "4" [] d = 5 -> "5" [] d = 6 -> "6" [] d = 7 -> "7"
      [] d = 8 -> "8" [] d = 9 -> "9"

\* the decimal text of a non-negative integer, as a template literal prints it
RECURSIVE NumToStr(_)
NumToStr(n) == IF n < 10 THEN <<Digit(n)>> ELSE NumToStr(n \div 10) \o <<Digit(n % 10)>>

\* String.prototype.split(':')
RECURSIVE SplitColon(_)
SplitColon(s) ==
    IF \A i \in 1..Len(s) : s[i] # ":"
    THEN <<s>>
    ELSE LET i == CHOOSE j \in 1..Len(s) :
                      s[j] = ":" /\ \A k \in 1..(j - 1) : s[k] # ":"
         IN <<SubSeq(s, 1, i - 1)>> \o SplitColon(SubSeq(s, i + 1, Len(s)))

\* Array.prototype.join(':')
RECURSIVE JoinColon(_)
JoinColon(parts) ==
    IF Len(parts) = 0 THEN EmptyStr
    ELSE IF Len(parts) = 1 THEN parts[1]
    ELSE parts[1] \o Colon \o JoinColon(Tail(parts))

\* key.split(':').slice(0, -1).join(':')
BaseKey(key) ==
    LET parts == SplitColon(key)
    IN JoinColon(SubSeq(parts, 1, Len(parts) - 1))


(***************************************************************************)
(* State.                                                                  *)
(*   requestCache      key -> [data, timestamp]                            *)
(*   abortControllers  key -> the call whose AbortController is stored     *)
(*   calls             the calls of apiRequest made so far, in call order; *)
(*                     a call's index is its identity and the identity of  *)
(*                     its AbortController, and the payload the backend    *)
(*                     answers call i with is i                            *)
(*   microtasks        the aborted fetches whose rejection is queued       *)
(*   now               Date.now()                                          *)
(*   rnd               the number of Math.random() draws so far            *)
(*   ticks, clears     history: clock steps taken, clearCache calls made   *)
(* A call also records history the properties read: live (the calls with   *)
(* its endpoint, token and cacheKey whose fetch was pending when it         *)
(* started), clearsBefore (the clearCache calls                              *)
(* made before it started), abortedBy and, in its result, where a payload  *)
(* came from and the age of a cache entry served.                          *)
(*   world             the environment: callers' requests, backend, clock   *)
(* The callers that are modelled with their own state:                     *)
(*   tenantStore       the tenant store (store/tenantStore.ts)             *)
(*   leadsPage         one instance of the Leads page (pages/Leads.tsx)    *)
(*   backend           the organisation the backend has active for the     *)
(*                     user, and for each request it has handled the       *)
(*                     organisation it answered under                      *)
(***************************************************************************)
VARIABLES requestCache, abortControllers, calls, microtasks, now, rnd, ticks, clears,
          world, tenantStore, leadsPage, backend

\* the callers' state and the backend's: the client never reads or writes it
ui == <<tenantStore, leadsPage, backend>>

vars == <<requestCache, abortControllers, calls, microtasks, now, rnd, ticks, clears, world,
          tenantStore, leadsPage, backend>>

EmptyMap == [k \in {} |-> k]
MapSet(m, k, v) == [x \in (DOMAIN m) \cup {k} |-> IF x = k THEN v ELSE m[x]]
MapDelete(m, k) == [x \in (DOMAIN m) \ {k} |-> m[x]]
MapHas(m, k) == k \in DOMAIN m

(***************************************************************************)
(* Inputs: what the callers pass to the verb wrappers.                     *)
(***************************************************************************)
Req(method, endpoint, token, cacheKey, skipCache) ==
    [method |-> method, endpoint |-> endpoint, token |-> token,
     cacheKey |-> cacheKey, skipCache |-> skipCache]

\* the requests the callers make
GetLeads == Req(GET, ApiLeads, TokenAbc, EmptyStr, FALSE)
GetLeadsSkip == Req(GET, ApiLeads, TokenAbc, EmptyStr, TRUE)
GetLeads123 == Req(GET, ApiLeads123, TokenAbc, EmptyStr, FALSE)
GetContacts == Req(GET, ApiContacts, TokenAbc, EmptyStr, FALSE)
GetDup == Req(GET, ApiLeads, TokenAbc, KeyDup, FALSE)
GetDup2 == Req(GET, ApiLeads, TokenAbc, KeyDup2, FALSE)
GetDupSkip == Req(GET, ApiLeads, TokenAbc, KeyDup, TRUE)
GetLeadsJwtA == Req(GET, ApiLeads, TokenJwtA, EmptyStr, FALSE)
GetLeadsJwtB == Req(GET, ApiLeads, TokenJwtB, EmptyStr, FALSE)
GetLeadsAnon == Req(GET, ApiLeads, EmptyStr, EmptyStr, FALSE)
PostLeads == Req(POST, ApiLeads, TokenAbc, EmptyStr, FALSE)
PostDup == Req(POST, ApiLeads, TokenAbc, KeyDup, FALSE)
PostDupSkip == Req(POST, ApiLeads, TokenAbc, KeyDup, TRUE)

Patterns == {EmptyStr, ApiLeads}
TickSteps == {29000, 30000}

\* what the network and the backend may answer a fetch with (a status, or no
\* response at all), and what the body of a response may be
Healthy == {"200", "json"}
Faulty == {"200", "400", "failed", "json", "detail", "unparseable"}
Erring == {"400", "500", "detail", "message", "both", "empty", "unparseable"}

\* The environments the client is run in: the requests its callers make and
\* how many, how the backend answers, how often the clock is seen to advance
\* and how often the callers invalidate the cache.
World(menu, answers, nCalls, nTicks, nClears) ==
    [menu |-> menu, answers |-> answers, calls |-> nCalls, ticks |-> nTicks,
     clears |-> nClears]

Worlds ==
    { \* the cache and its time-to-live
      World({GetLeads, GetLeadsSkip}, Healthy, MaxCalls, MaxTicks, 0),
      \* invalidation by substring
      World({GetLeads123, GetContacts}, Healthy, MaxCalls - 1, 0, MaxClears),
      World({GetLeads, PostDup}, Healthy, MaxCalls - 1, 0, MaxClears),
      \* calls that share an explicit cacheKey
      World({GetDup, PostDup}, Healthy, MaxCalls, MaxTicks, 0),
      World({GetDup, GetDup2}, Healthy, MaxCalls, MaxTicks, 0),
      World({GetDup, GetDupSkip}, Healthy, MaxCalls, 0, 0),
      \* default-key GETs beside mutations, and a backend that fails
      World({GetLeads, PostDup}, Faulty, MaxCalls, 0, 0),
      \* mutations without a cacheKey
      World({PostLeads, PostDupSkip}, Healthy, MaxCalls, 0, 0),
      World({PostLeads}, Healthy, MaxCalls - 1, MaxTicks, 0),
      \* callers with different tokens, and one with none
      World({GetLeads, GetLeadsJwtA, GetLeadsJwtB, GetLeadsAnon}, Healthy,
            MaxCalls - 1, MaxTicks, 0),
      \* a backend that answers with errors only
      World({GetLeads}, Erring, MaxCalls - 1, 0, 0) }

\* the Authorization header a verb wrapper attaches
AuthHeader(token) == IF token # EmptyStr THEN BearerPrefix \o token ELSE EmptyStr

\* the text of one Math.random() draw; successive draws differ
RandomStr(r) == ZeroDot \o NumToStr(r)

\* a slip: the key of a mutating call left unsalted
SaltedKeyUnsalted(method, endpoint, authHash, t, r) ==
    method \o Colon \o endpoint \o Colon \o authHash

\* the key a mutating call without cacheKey gets: no two alike
SaltedKey(method, endpoint, authHash, t, r) ==
    method \o Colon \o endpoint \o Colon \o authHash \o Colon
        \o NumToStr(t) \o Dash \o RandomStr(r)

\* a slip: the whole Authorization header taken
AuthHashWhole(authHeader) == IF authHeader # EmptyStr THEN authHeader ELSE NoAuth

AuthHash(authHeader) ==
    IF authHeader # EmptyStr THEN Substring0(authHeader, AuthHashLen) ELSE NoAuth

DeriveKey(method, endpoint, authHeader, cacheKey, t, r) ==
    IF cacheKey # EmptyStr
    THEN cacheKey
    ELSE IF method = GET
         THEN method \o Colon \o endpoint \o Colon \o AuthHash(authHeader)
         ELSE SaltedKey(method, endpoint, AuthHash(authHeader), t, r)

\* a slip: every call stores its AbortController (the earlier revision's rule)
TrackedAlways(method, cacheKey) == TRUE

\* whether the call stores its AbortController: method !== 'GET' || cacheKey
Tracked(method, cacheKey) == method # GET \/ cacheKey # EmptyStr

\* a slip: skipCache not looked at
UsesCacheWhateverSkip(method, skipCache) == method = GET

\* whether the call reads and writes the cache: !skipCache && method === 'GET'
UsesCache(method, skipCache) == ~skipCache /\ method = GET

\* a slip: <= for <
CacheFreshInclusive(cache, key, t) ==
    MapHas(cache, key) /\ t - cache[key].timestamp <= CACHE_TTL

\* cached && Date.now() - cached.timestamp < CACHE_TTL
CacheFresh(cache, key, t) ==
    MapHas(cache, key) /\ t - cache[key].timestamp < CACHE_TTL

(***************************************************************************)
(* Results of a call.                                                      *)
(***************************************************************************)
\* kind: none (not settled), data (resolved) or error (rejected); src: where a
\* resolved payload came from; age: how old the cache entry served was; msg
\* and by: the message of the error rejected with and who created that error
\* object (apiRequest with new Error, fetch, or response.json)
NoResult == [kind |-> "none", data |-> 0, src |-> "", msg |-> "", age |-> 0, by |-> ""]
DataResult(d, src, age) ==
    [kind |-> "data", data |-> d, src |-> src, msg |-> "", age |-> age, by |-> ""]
\* throw new Error(msg)
ErrorResult(msg) ==
    [kind |-> "error", data |-> 0, src |-> "", msg |-> msg, age |-> 0, by |-> "apiRequest"]
\* throw error: the caught object itself
Rethrown(error) ==
    [kind |-> "error", data |-> 0, src |-> "", msg |-> error.msg, age |-> 0,
     by |-> error.by]

\* the errors thrown inside the try block
Thrown(name, msg, by) == [name |-> name, msg |-> msg, by |-> by]
AbortError == Thrown("AbortError", "signal is aborted without reason", "fetch")
FailedToFetch == Thrown("TypeError", "Failed to fetch", "fetch")
NotJson == Thrown("SyntaxError", "Unexpected token", "json")
HttpError(msg) == Thrown("Error", msg, "apiRequest")

Ids == 1..Len(calls)
Settled(c) == c.pc = "settled"

\* null
Null == "null"
TenantOne == "org-1"
TenantTwo == "org-2"

\* create<TenantState>(...): activeTenantId null; pc is where setActiveTenant
\* stands, id its argument and call the request it awaits
TenantStoreInit == [activeTenantId |-> Null, pc |-> "idle", id |-> Null, call |-> 0]

\* the Leads component when mounted: useState / useRef initial values.  leads
\* is the call whose payload the list in state was taken from (0: the empty
\* list), error the error message (Null: none); fetchCall is the request the
\* running fetchLeads awaits and requests all those fetchLeads has issued;
\* submit is where handleSubmit stands, postCall its POST and callsAtPost
\* the number of calls made when that POST resolved
LeadsPageInit ==
    [fetchingRef |-> FALSE, fetchCall |-> 0, requests |-> {}, leads |-> 0,
     error |-> Null, submit |-> "idle", postCall |-> 0, callsAtPost |-> 0]

\* the user's active organisation is the first; nothing handled yet
BackendInit == [tenant |-> TenantOne, served |-> EmptyMap]

\* the module just loaded, nothing called yet
Loaded ==
    /\ requestCache = EmptyMap
    /\ abortControllers = EmptyMap
    /\ calls = << >>
    /\ microtasks = << >>
    /\ now = 0
    /\ rnd = 0
    /\ ticks = 0
    /\ clears = << >>
    /\ tenantStore = TenantStoreInit
    /\ leadsPage = LeadsPageInit
    /\ backend = BackendInit

Init == Loaded /\ world \in Worlds

\* abortedBy: 0 for a call not aborted, the aborting call, or ByCancelAll
ByCancelAll == 0 - 1

\* a slip: the existing controller is replaced without being aborted
AbortCallForgotten(cs, j, by) == cs

\* controller.abort() on the controller of call j
AbortCall(cs, j, by) ==
    IF cs[j].aborted THEN cs
    ELSE [cs EXCEPT ![j].aborted = TRUE, ![j].abortedBy = by]

\* a slip: the abort never reaches the awaiting call
NewlyAbortedLost(cs, j) == << >>

\* the fetches that abort() makes reject: their rejections are queued
NewlyAborted(cs, j) == IF ~cs[j].aborted /\ cs[j].pc = "fetching" THEN <<j>> ELSE << >>

\* a slip: the registry policy runs before the cache check, so a call that
\* is answered from the cache has already aborted the controller stored
\* under its key and stored its own
ApiRequestRegistryFirst(method, endpoint, token, cacheKey, skipCache) ==
    /\ Len(calls) < world.calls
    /\ LET key == DeriveKey(method, endpoint, AuthHeader(token), cacheKey, now, rnd)
           id == Len(calls) + 1
           hit == UsesCache(method, skipCache) /\ CacheFresh(requestCache, key, now)
           call == [method |-> method, endpoint |-> endpoint, token |-> token,
                    cacheKey |-> cacheKey, skipCache |-> skipCache, key |-> key,
                    pc |-> IF hit THEN "settled" ELSE "fetching",
                    aborted |-> FALSE, abortedBy |-> 0,
                    ok |-> FALSE, status |-> "", body |-> "",
                    result |-> IF hit
                               THEN DataResult(requestCache[key].data, "cache",
                                               now - requestCache[key].timestamp)
                               ELSE NoResult,
                    clearsBefore |-> Len(clears),
                    live |-> {j \in Ids : /\ calls[j].pc = "fetching"
                                          /\ calls[j].endpoint = endpoint
                                          /\ calls[j].token = token
                                          /\ calls[j].cacheKey = cacheKey}]
       IN /\ rnd' = IF cacheKey = EmptyStr /\ method # GET THEN rnd + 1 ELSE rnd
          /\ IF Tracked(method, cacheKey)
             THEN IF MapHas(abortControllers, key)
                  THEN LET j == abortControllers[key]
                       IN /\ calls' = Append(AbortCall(calls, j, id), call)
                          /\ microtasks' = microtasks \o NewlyAborted(calls, j)
                          /\ abortControllers' = MapSet(abortControllers, key, id)
                  ELSE /\ calls' = Append(calls, call)
                       /\ abortControllers' = MapSet(abortControllers, key, id)
                       /\ UNCHANGED microtasks
             ELSE /\ calls' = Append(calls, call)
                  /\ UNCHANGED <<abortControllers, microtasks>>
    /\ UNCHANGED <<requestCache, now, ticks, clears, world>>


(***************************************************************************)
(* apiRequest, from its call to `await fetch` (or to the cache hit).       *)
(***************************************************************************)
ApiRequest(method, endpoint, token, cacheKey, skipCache) ==
    /\ Len(calls) < world.calls
    /\ LET key == DeriveKey(method, endpoint, AuthHeader(token), cacheKey, now, rnd)
           salted == cacheKey = EmptyStr /\ method # GET
           id == Len(calls) + 1
           call == [method |-> method, endpoint |-> endpoint, token |-> token,
                    cacheKey |-> cacheKey, skipCache |-> skipCache, key |-> key,
                    pc |-> "fetching", aborted |-> FALSE, abortedBy |-> 0,
                    ok |-> FALSE, status |-> "", body |-> "", result |-> NoResult,
                    clearsBefore |-> Len(clears),
                    live |-> {j \in Ids : /\ calls[j].pc = "fetching"
                                          /\ calls[j].endpoint = endpoint
                                          /\ calls[j].token = token
                                          /\ calls[j].cacheKey = cacheKey}]
       IN /\ rnd' = IF salted THEN rnd + 1 ELSE rnd
          /\ IF UsesCache(method, skipCache) /\ CacheFresh(requestCache, key, now)
             THEN /\ calls' = Append(calls,
                        [call EXCEPT !.pc = "settled",
                                     !.result = DataResult(requestCache[key].data, "cache",
                                                           now - requestCache[key].timestamp)])
                  /\ UNCHANGED <<abortControllers, microtasks>>
             ELSE IF Tracked(method, cacheKey)
             THEN IF MapHas(abortControllers, key)
                  THEN LET j == abortControllers[key]
                       IN /\ calls' = Append(AbortCall(calls, j, id), call)
                          /\ microtasks' = microtasks \o NewlyAborted(calls, j)
                          /\ abortControllers' = MapSet(abortControllers, key, id)
                  ELSE /\ calls' = Append(calls, call)
                       /\ abortControllers' = MapSet(abortControllers, key, id)
                       /\ UNCHANGED microtasks
             ELSE /\ calls' = Append(calls, call)
                  /\ UNCHANGED <<abortControllers, microtasks>>
    /\ UNCHANGED <<requestCache, now, ticks, clears, world>>

(***************************************************************************)
(* The catch block.                                                        *)
(***************************************************************************)
\* a slip: the fallback taken whatever the method
AbortFallbackAnyMethod(cache, c, t) ==
    IF ~c.skipCache /\ MapHas(cache, c.key)
    THEN DataResult(cache[c.key].data, "fallback", t - cache[c.key].timestamp)
    ELSE ErrorResult(MsgCancelled)

\* a slip: the fallback taken whatever skipCache
AbortFallbackIgnoringSkip(cache, c, t) ==
    IF c.method = GET
    THEN IF MapHas(cache, BaseKey(c.key))
         THEN DataResult(cache[BaseKey(c.key)].data, "fallback",
                         t - cache[BaseKey(c.key)].timestamp)
         ELSE IF MapHas(cache, c.key)
         THEN DataResult(cache[c.key].data, "fallback", t - cache[c.key].timestamp)
         ELSE ErrorResult(MsgCancelled)
    ELSE ErrorResult(MsgCancelled)

AbortFallback(cache, c, t) ==
    IF c.method = GET /\ ~c.skipCache
    THEN IF MapHas(cache, BaseKey(c.key))
         THEN DataResult(cache[BaseKey(c.key)].data, "fallback",
                         t - cache[BaseKey(c.key)].timestamp)
         ELSE IF MapHas(cache, c.key)
         THEN DataResult(cache[c.key].data, "fallback", t - cache[c.key].timestamp)
         ELSE ErrorResult(MsgCancelled)
    ELSE ErrorResult(MsgCancelled)

\* error.name === 'AbortError' || error.message === 'The user aborted a request.'
IsAbort(error) == error.name = "AbortError" \/ error.msg = MsgUserAborted

\* a slip: an error that is not an abort is wrapped in a new Error
CatchWrapping(cache, c, error, t) ==
    IF IsAbort(error) THEN AbortFallback(cache, c, t) ELSE ErrorResult(error.msg)

\* what the call settles with when its try block throws error
Catch(cache, c, error, t) ==
    IF IsAbort(error) THEN AbortFallback(cache, c, t) ELSE Rethrown(error)

\* a slip: the handle is never released
ReleaseNever(registry, c) == registry

\* abortControllers.delete(key), if the controller was stored
Release(registry, c) ==
    IF Tracked(c.method, c.cacheKey) THEN MapDelete(registry, c.key) ELSE registry

(***************************************************************************)
(* The network answers call i: `await fetch` resumes.                      *)
(***************************************************************************)
FetchOutcomes == {"200", "400", "500", "failed"} \cap world.answers

\* response.ok
ResponseOk(status) == status = "200"

FetchSettles(i, outcome) ==
    /\ microtasks = << >>
    /\ calls[i].pc = "fetching"
    /\ ~calls[i].aborted
    /\ abortControllers' = Release(abortControllers, calls[i])
    /\ IF outcome = "failed"
       THEN calls' = [calls EXCEPT ![i].pc = "settled", ![i].status = outcome,
                                   ![i].result = Catch(requestCache, calls[i],
                                                       FailedToFetch, now)]
       ELSE calls' = [calls EXCEPT ![i].pc = "decoding", ![i].status = outcome,
                                   ![i].ok = ResponseOk(outcome)]
    /\ UNCHANGED <<requestCache, microtasks, now, rnd, ticks, clears, world>>

(***************************************************************************)
(* The body of call i's response has been read: `await response.json()`   *)
(* resumes.  A non-2xx response throws inside the try block, and so does a *)
(* body that is not JSON: the catch block releases the key once more.      *)
(***************************************************************************)
Bodies == {"json", "detail", "message", "both", "empty", "unparseable"} \cap world.answers

\* the body of a non-2xx response, decoded: response.json().catch(() => ({}));
\* "" stands for a field that is not there
ErrorData(body) ==
    [detail |-> IF body \in {"detail", "both"} THEN "Invalid email" ELSE "",
     message |-> IF body \in {"message", "both"} THEN "Bad Request" ELSE ""]

\* a slip: the message field preferred to the detail field
ErrorMessageFirst(status, body) ==
    IF ErrorData(body).message # "" THEN ErrorData(body).message
    ELSE IF ErrorData(body).detail # "" THEN ErrorData(body).detail
    ELSE HttpPrefix \o status

\* errorData.detail || errorData.message || `HTTP ${response.status}`
ErrorMessage(status, body) ==
    IF ErrorData(body).detail # "" THEN ErrorData(body).detail
    ELSE IF ErrorData(body).message # "" THEN ErrorData(body).message
    ELSE HttpPrefix \o status

\* a slip: the response is cached whatever became of it
StoredWhateverStatus(cache, c, decoded, d, t) ==
    IF UsesCache(c.method, c.skipCache)
    THEN MapSet(cache, c.key, [data |-> d, timestamp |-> t])
    ELSE cache

\* a slip: an entry already there is kept (the first write wins)
StoredIfAbsent(cache, c, decoded, d, t) ==
    IF decoded /\ UsesCache(c.method, c.skipCache) /\ ~MapHas(cache, c.key)
    THEN MapSet(cache, c.key, [data |-> d, timestamp |-> t])
    ELSE cache

\* the cache after the try block: requestCache.set is reached only by a 2xx
\* response whose body decoded
Stored(cache, c, decoded, d, t) ==
    IF decoded /\ UsesCache(c.method, c.skipCache)
    THEN MapSet(cache, c.key, [data |-> d, timestamp |-> t])
    ELSE cache

BodySettles(i, body) ==
    /\ microtasks = << >>
    /\ calls[i].pc = "decoding"
    /\ LET c == calls[i]
       IN IF ~c.ok
          THEN /\ body # "json"
               /\ calls' = [calls EXCEPT ![i].pc = "settled", ![i].body = body,
                                         ![i].result =
                                             Catch(requestCache, c,
                                                   HttpError(ErrorMessage(c.status, body)),
                                                   now)]
               /\ abortControllers' = Release(abortControllers, c)
               /\ requestCache' = Stored(requestCache, c, FALSE, i, now)
          ELSE IF body = "unparseable"
          THEN /\ calls' = [calls EXCEPT ![i].pc = "settled", ![i].body = body,
                                         ![i].result = Catch(requestCache, c, NotJson, now)]
               /\ abortControllers' = Release(abortControllers, c)
               /\ requestCache' = Stored(requestCache, c, FALSE, i, now)
          ELSE /\ body = "json"
               /\ requestCache' = Stored(requestCache, c, TRUE, i, now)
               /\ calls' = [calls EXCEPT ![i].pc = "settled", ![i].body = body,
                                         ![i].result = DataResult(i, "network", 0)]
               /\ UNCHANGED abortControllers
    /\ UNCHANGED <<microtasks, now, rnd, ticks, clears, world>>

(***************************************************************************)
(* The rejection of an aborted fetch reaches its call: the next queued one. *)
(***************************************************************************)
AbortCaught ==
    /\ microtasks # << >>
    /\ LET i == Head(microtasks)
       IN /\ calls' = [calls EXCEPT ![i].pc = "settled",
                                    ![i].result = Catch(requestCache, calls[i],
                                                        AbortError, now)]
          /\ abortControllers' = Release(abortControllers, calls[i])
    /\ microtasks' = Tail(microtasks)
    /\ UNCHANGED <<requestCache, now, rnd, ticks, clears, world>>

(***************************************************************************)
(* clearCache(pattern?)                                                    *)
(***************************************************************************)
\* a slip: only keys that start with the pattern are deleted
ClearedByPrefix(cache, pattern) ==
    IF pattern # EmptyStr
    THEN [k \in {x \in DOMAIN cache : Substring0(x, Len(pattern)) # pattern} |-> cache[k]]
    ELSE EmptyMap

Cleared(cache, pattern) ==
    IF pattern # EmptyStr
    THEN [k \in {x \in DOMAIN cache : ~Includes(x, pattern)} |-> cache[k]]
    ELSE EmptyMap

ClearCache(pattern) ==
    /\ Len(clears) < world.clears
    /\ requestCache' = Cleared(requestCache, pattern)
    /\ clears' = Append(clears, [pattern |-> pattern, calls |-> Len(calls)])
    /\ UNCHANGED <<abortControllers, calls, microtasks, now, rnd, ticks, world>>

(***************************************************************************)
(* cancelAllRequests()                                                     *)
(***************************************************************************)
RECURSIVE AbortEach(_, _)
AbortEach(cs, ids) ==
    IF ids = {} THEN cs
    ELSE LET j == CHOOSE x \in ids : \A y \in ids : x <= y
         IN AbortEach(AbortCall(cs, j, ByCancelAll), ids \ {j})

RECURSIVE QueueEach(_, _)
QueueEach(cs, ids) ==
    IF ids = {} THEN << >>
    ELSE LET j == CHOOSE x \in ids : \A y \in ids : x <= y
         IN NewlyAborted(cs, j) \o QueueEach(cs, ids \ {j})

CancelAllRequests ==
    /\ abortControllers # EmptyMap
    /\ LET held == {abortControllers[k] : k \in DOMAIN abortControllers}
       IN /\ calls' = AbortEach(calls, held)
          /\ microtasks' = microtasks \o QueueEach(calls, held)
    /\ abortControllers' = EmptyMap
    /\ UNCHANGED <<requestCache, now, rnd, ticks, clears, world>>

(***************************************************************************)
(* Time passes.                                                            *)
(***************************************************************************)
Tick(d) ==
    /\ ticks < world.ticks
    /\ now' = now + d
    /\ ticks' = ticks + 1
    /\ UNCHANGED <<requestCache, abortControllers, calls, microtasks, rnd, clears, world>>

Next ==
    \/ \E r \in world.menu :
          ApiRequest(r.method, r.endpoint, r.token, r.cacheKey, r.skipCache) /\ UNCHANGED ui
    \/ \E i \in Ids, o \in FetchOutcomes : FetchSettles(i, o) /\ UNCHANGED ui
    \/ \E i \in Ids, b \in Bodies : BodySettles(i, b) /\ UNCHANGED ui
    \/ AbortCaught /\ UNCHANGED ui
    \/ \E p \in Patterns : ClearCache(p) /\ UNCHANGED ui
    \/ CancelAllRequests /\ UNCHANGED ui
    \/ \E d \in TickSteps : Tick(d) /\ UNCHANGED ui

Spec == Init /\ [][Next]_vars

\* The same client where the event loop is known to run: a queued rejection
\* is delivered to the call that awaits it.  The environments are those
\* with few calls, which between them invalidate, cancel and see time pass.
LiveWorlds ==
    {w \in Worlds : /\ w.answers = Healthy
                    /\ w.menu \in {{GetLeads, PostDup}, {GetDup, GetDupSkip}, {PostLeads}}}

LiveInit == Init /\ world \in LiveWorlds

LiveSpec == LiveInit /\ [][Next]_vars /\ WF_vars(AbortCaught /\ UNCHANGED ui)


(***************************************************************************)
(* The earlier revision of the client (the second copy of utils/api):      *)
(* the key is the cacheKey or method:endpoint, every call stores its       *)
(* controller and a call first aborts the controller stored under its key. *)
(* clearCache and cancelAllRequests are as in the current revision.        *)
(***************************************************************************)
OldWorlds ==
    { World({GetLeads, GetLeadsSkip}, Healthy, MaxCalls, MaxTicks, 0),
      World({GetLeads, PostLeads}, Faulty, MaxCalls - 1, 0, MaxClears),
      World({GetDup, PostDup}, Healthy, MaxCalls, 0, 0) }

OldInit == Loaded /\ world \in OldWorlds

\* cacheKey || `${fetchOptions.method || 'GET'}:${endpoint}`
OldDeriveKey(method, endpoint, cacheKey) ==
    IF cacheKey # EmptyStr
    THEN cacheKey
    ELSE (IF method # EmptyStr THEN method ELSE GET) \o Colon \o endpoint

\* !skipCache && fetchOptions.method === undefined || fetchOptions.method === 'GET'
\* (&& binds tighter than ||; EmptyStr stands for undefined)
OldReadsCache(method, skipCache) ==
    (~skipCache /\ method = EmptyStr) \/ method = GET

\* !skipCache && (fetchOptions.method === undefined || fetchOptions.method === 'GET')
OldWritesCache(method, skipCache) ==
    ~skipCache /\ (method = EmptyStr \/ method = GET)

\* if (abortControllers.has(key)) abortControllers.get(key)?.abort()
OldAbortPrevious(cs, registry, key, id) ==
    IF MapHas(registry, key) THEN AbortCall(cs, registry[key], id) ELSE cs

OldApiRequest(method, endpoint, token, cacheKey, skipCache) ==
    /\ Len(calls) < world.calls
    /\ LET key == OldDeriveKey(method, endpoint, cacheKey)
           id == Len(calls) + 1
           call == [method |-> method, endpoint |-> endpoint, token |-> token,
                    cacheKey |-> cacheKey, skipCache |-> skipCache, key |-> key,
                    pc |-> "fetching", aborted |-> FALSE, abortedBy |-> 0,
                    ok |-> FALSE, status |-> "", body |-> "", result |-> NoResult,
                    clearsBefore |-> Len(clears),
                    live |-> {j \in Ids : /\ calls[j].pc = "fetching"
                                          /\ calls[j].endpoint = endpoint
                                          /\ calls[j].token = token
                                          /\ calls[j].cacheKey = cacheKey}]
           others == OldAbortPrevious(calls, abortControllers, key, id)
           rejected == IF MapHas(abortControllers, key)
                          /\ others[abortControllers[key]].aborted
                       THEN NewlyAborted(calls, abortControllers[key])
                       ELSE << >>
       IN /\ microtasks' = microtasks \o rejected
          /\ IF OldReadsCache(method, skipCache) /\ CacheFresh(requestCache, key, now)
             THEN /\ calls' = Append(others,
                        [call EXCEPT !.pc = "settled",
                                     !.result = DataResult(requestCache[key].data, "cache",
                                                           now - requestCache[key].timestamp)])
                  /\ UNCHANGED abortControllers
             ELSE /\ calls' = Append(others, call)
                  /\ abortControllers' = MapSet(abortControllers, key, id)
    /\ UNCHANGED <<requestCache, now, rnd, ticks, clears, world>>

\* the catch block: only an AbortError becomes 'Request cancelled'
OldCatch(error) ==
    IF error.name = "AbortError" THEN ErrorResult(MsgCancelled) ELSE Rethrown(error)

OldFetchSettles(i, outcome) ==
    /\ microtasks = << >>
    /\ calls[i].pc = "fetching"
    /\ ~calls[i].aborted
    /\ abortControllers' = MapDelete(abortControllers, calls[i].key)
    /\ IF outcome = "failed"
       THEN calls' = [calls EXCEPT ![i].pc = "settled", ![i].status = outcome,
                                   ![i].result = OldCatch(FailedToFetch)]
       ELSE calls' = [calls EXCEPT ![i].pc = "decoding", ![i].status = outcome,
                                   ![i].ok = ResponseOk(outcome)]
    /\ UNCHANGED <<requestCache, microtasks, now, rnd, ticks, clears, world>>

OldBodySettles(i, body) ==
    /\ microtasks = << >>
    /\ calls[i].pc = "decoding"
    /\ LET c == calls[i]
       IN IF ~c.ok
          THEN /\ body # "json"
               /\ calls' = [calls EXCEPT ![i].pc = "settled", ![i].body = body,
                                         ![i].result =
                                             OldCatch(HttpError(ErrorMessage(c.status, body)))]
               /\ abortControllers' = MapDelete(abortControllers, c.key)
               /\ UNCHANGED requestCache
          ELSE IF body = "unparseable"
          THEN /\ calls' = [calls EXCEPT ![i].pc = "settled", ![i].body = body,
                                         ![i].result = OldCatch(NotJson)]
               /\ abortControllers' = MapDelete(abortControllers, c.key)
               /\ UNCHANGED requestCache
          ELSE /\ body = "json"
               /\ requestCache' =
                     IF OldWritesCache(c.method, c.skipCache)
                     THEN MapSet(requestCache, c.key, [data |-> i, timestamp |-> now])
                     ELSE requestCache
               /\ calls' = [calls EXCEPT ![i].pc = "settled", ![i].body = body,
                                         ![i].result = DataResult(i, "network", 0)]
               /\ UNCHANGED abortControllers
    /\ UNCHANGED <<microtasks, now, rnd, ticks, clears, world>>

OldAbortCaught ==
    /\ microtasks # << >>
    /\ LET i == Head(microtasks)
       IN /\ calls' = [calls EXCEPT ![i].pc = "settled",
                                    ![i].result = OldCatch(AbortError)]
          /\ abortControllers' = MapDelete(abortControllers, calls[i].key)
    /\ microtasks' = Tail(microtasks)
    /\ UNCHANGED <<requestCache, now, rnd, ticks, clears, world>>

OldNext ==
    \/ \E r \in world.menu :
          OldApiRequest(r.method, r.endpoint, r.token, r.cacheKey, r.skipCache)
              /\ UNCHANGED ui
    \/ \E i \in Ids, o \in FetchOutcomes : OldFetchSettles(i, o) /\ UNCHANGED ui
    \/ \E i \in Ids, b \in Bodies : OldBodySettles(i, b) /\ UNCHANGED ui
    \/ OldAbortCaught /\ UNCHANGED ui
    \/ \E p \in Patterns : ClearCache(p) /\ UNCHANGED ui
    \/ CancelAllRequests /\ UNCHANGED ui
    \/ \E d \in TickSteps : Tick(d) /\ UNCHANGED ui

OldSpec == OldInit /\ [][OldNext]_vars


(***************************************************************************)
(* The tenant store over the client, and a backend that keeps the user's   *)
(* active organisation: a request is handled by the backend at some moment *)
(* while its fetch is pending, and its response carries what the backend   *)
(* held at that moment.                                                    *)
(***************************************************************************)
ApiTenants == <<"/", "a", "p", "i", "/", "t", "e", "n", "a", "n", "t", "s">>
ApiTenantsSwitch == ApiTenants \o <<"/", "s", "w", "i", "t", "c", "h">>

Tenants == {TenantOne, TenantTwo}

\* a backend that answers 200 with JSON or 500 with an empty body;
\* one other caller that lists leads
TenantAnswers == {"200", "500", "json", "empty"}
TenantWorlds == { World({GetLeads}, TenantAnswers, MaxCalls + 1, 0, MaxClears) }

TenantInit == Loaded /\ world \in TenantWorlds

\* a caller runs on from one await to the next without any other task in
\* between: nothing else happens between clearCache() and the apiGet of
\* fetchTenants
NoCallerMidRun == tenantStore.pc # "cleared"

\* the backend handles request i: a successful switch makes the organisation
\* asked for the active one, and every answer is made under the active one
BackendServes(i, outcome) ==
    /\ NoCallerMidRun
    /\ calls[i].pc = "fetching"
    /\ ~MapHas(backend.served, i)
    /\ LET switches == /\ tenantStore.pc = "switching" /\ tenantStore.call = i
                       /\ outcome = "200"
           tenant == IF switches THEN tenantStore.id ELSE backend.tenant
       IN backend' = [tenant |-> tenant,
                      served |-> MapSet(backend.served, i,
                                        [tenant |-> tenant, outcome |-> outcome])]
    /\ UNCHANGED <<requestCache, abortControllers, calls, microtasks, now, rnd, ticks,
                   clears, world, tenantStore, leadsPage>>

\* fetchTenants after `await apiGet`: the store takes activeTenantId from the
\* response, or null when the request failed; setActiveTenant then returns
Refreshed(store, c, served) ==
    IF c.result.kind = "data"
    THEN [store EXCEPT !.activeTenantId = served[c.result.data].tenant, !.pc = "resolved"]
    ELSE [store EXCEPT !.activeTenantId = Null, !.pc = "resolved"]

\* setActiveTenant after `await apiPost`: set({ activeTenantId: id }) and on
\* to `await import`, or the catch block, which rethrows
Switched(store, c) ==
    IF c.result.kind = "data"
    THEN [store EXCEPT !.activeTenantId = store.id, !.pc = "importing"]
    ELSE [store EXCEPT !.pc = "rejected"]

\* the store once the request it awaits has settled
TenantStoreAfter(store, cs, served) ==
    IF store.pc \in {"switching", "refreshing"} /\ Settled(cs[store.call])
    THEN IF store.pc = "switching"
         THEN Switched(store, cs[store.call])
         ELSE Refreshed(store, cs[store.call], served)
    ELSE store

\* setActiveTenant(id), to `await apiPost`
SetActiveTenant(id) ==
    /\ tenantStore.pc = "idle"
    /\ ApiRequest(POST, ApiTenantsSwitch, TokenAbc, EmptyStr, FALSE)
    /\ tenantStore' = [tenantStore EXCEPT !.pc = "switching", !.id = id,
                                          !.call = Len(calls) + 1]
    /\ UNCHANGED <<leadsPage, backend>>

\* `await import('../utils/api')` resumes: clearCache()
TenantClearCache ==
    /\ tenantStore.pc = "importing"
    /\ ClearCache(EmptyStr)
    /\ tenantStore' = [tenantStore EXCEPT !.pc = "cleared"]
    /\ UNCHANGED <<leadsPage, backend>>

\* get().fetchTenants(), to `await apiGet`
FetchTenants ==
    /\ tenantStore.pc = "cleared"
    /\ ApiRequest(GET, ApiTenants, TokenAbc, EmptyStr, FALSE)
    /\ tenantStore' = TenantStoreAfter([tenantStore EXCEPT !.pc = "refreshing",
                                                           !.call = Len(calls) + 1],
                                       calls', backend.served)
    /\ UNCHANGED <<leadsPage, backend>>

\* the response of request i arrives, with the status the backend answered
\* with
TenantFetchSettles(i) ==
    /\ NoCallerMidRun
    /\ MapHas(backend.served, i)
    /\ FetchSettles(i, backend.served[i].outcome)
    /\ tenantStore' = TenantStoreAfter(tenantStore, calls', backend.served)
    /\ UNCHANGED <<leadsPage, backend>>

TenantBodySettles(i, body) ==
    /\ NoCallerMidRun
    /\ BodySettles(i, body)
    /\ tenantStore' = TenantStoreAfter(tenantStore, calls', backend.served)
    /\ UNCHANGED <<leadsPage, backend>>

TenantNext ==
    \/ \E id \in Tenants : SetActiveTenant(id)
    \/ TenantClearCache
    \/ FetchTenants
    \/ \E r \in world.menu :
          /\ NoCallerMidRun
          /\ ApiRequest(r.method, r.endpoint, r.token, r.cacheKey, r.skipCache)
          /\ UNCHANGED ui
    \/ \E i \in Ids, o \in FetchOutcomes : BackendServes(i, o)
    \/ \E i \in Ids : TenantFetchSettles(i)
    \/ \E i \in Ids, b \in Bodies : TenantBodySettles(i, b)

TenantSpec == TenantInit /\ [][TenantNext]_vars


(***************************************************************************)
(* One instance of the Leads page over the client: fetchLeads, which the   *)
(* mount effect and the handlers call, and handleSubmit.                   *)
(***************************************************************************)
MsgLoadFailed == "Failed to load leads"
MsgCreateFailed ==
    "Failed to create lead. Please check your connection and try again."

\* the page is the only caller; the backend answers 200 with JSON or 500
\* with an empty body, and the network can fail
LeadsAnswers == {"200", "500", "failed", "json", "empty"}
LeadsWorlds == { World({}, LeadsAnswers, MaxCalls, 0, MaxClears) }

LeadsInit == Loaded /\ world \in LeadsWorlds

\* handleSubmit runs on from `await apiPost` through clearCache to the call
\* of fetchLeads without any other task in between
NoHandlerMidRun == leadsPage.submit \notin {"posted", "cleared"}

\* a slip: the guard is released only when the request succeeded
FinallyOnSuccessOnly(page, c) ==
    IF c.result.kind = "data" THEN [page EXCEPT !.fetchingRef = FALSE] ELSE page

\* finally { setIsLoading(false); fetchingRef.current = false; }
Finally(page, c) == [page EXCEPT !.fetchingRef = FALSE]

\* fetchLeads past its guard: fetchingRef.current = true; setError(null)
Started(page, id) ==
    [page EXCEPT !.fetchingRef = TRUE, !.fetchCall = id,
                 !.requests = page.requests \cup {id}, !.error = Null]

\* fetchLeads after `await apiGet`: setLeads, or the catch block, which
\* returns on 'Request cancelled' and sets the error otherwise; then finally.
\* A handleSubmit that awaits this fetchLeads returns too.
Fetched(page, c) ==
    LET after == IF c.result.kind = "data"
                 THEN [page EXCEPT !.leads = c.result.data]
                 ELSE IF c.result.msg = MsgCancelled
                 THEN page
                 ELSE [page EXCEPT !.error = IF c.result.msg # ""
                                             THEN c.result.msg ELSE MsgLoadFailed]
        returned == IF page.submit = "refetching"
                    THEN [after EXCEPT !.submit = "done"] ELSE after
    IN Finally(returned, c)

\* handleSubmit after `await apiPost`: on to clearCache, or the catch block;
\* n is the number of calls made so far
Posted(page, c, n) ==
    IF c.result.kind = "data"
    THEN [page EXCEPT !.submit = "posted", !.callsAtPost = n]
    ELSE [page EXCEPT !.submit = "failed",
                      !.error = IF c.result.msg # "" THEN c.result.msg
                                ELSE MsgCreateFailed]

\* the page once a request it awaits has settled
LeadsPageAfter(page, cs) ==
    IF page.fetchingRef /\ Settled(cs[page.fetchCall])
    THEN Fetched(page, cs[page.fetchCall])
    ELSE IF page.submit = "posting" /\ Settled(cs[page.postCall])
    THEN Posted(page, cs[page.postCall], Len(cs))
    ELSE page

\* fetchLeads(), to `await apiGet`; with the guard set it returns at once
FetchLeads ==
    /\ NoHandlerMidRun
    /\ ~leadsPage.fetchingRef
    /\ ApiRequest(GET, ApiLeads, TokenAbc, EmptyStr, FALSE)
    /\ leadsPage' = LeadsPageAfter(Started(leadsPage, Len(calls) + 1), calls')
    /\ UNCHANGED <<tenantStore, backend>>

\* handleSubmit(e), to `await apiPost`
HandleSubmit ==
    /\ leadsPage.submit = "idle"
    /\ ApiRequest(POST, ApiLeads, TokenAbc, EmptyStr, FALSE)
    /\ leadsPage' = [leadsPage EXCEPT !.submit = "posting", !.error = Null,
                                      !.postCall = Len(calls) + 1]
    /\ UNCHANGED <<tenantStore, backend>>

\* handleSubmit: clearCache('/api/leads')
SubmitClearCache ==
    /\ leadsPage.submit = "posted"
    /\ ClearCache(ApiLeads)
    /\ leadsPage' = [leadsPage EXCEPT !.submit = "cleared"]
    /\ UNCHANGED <<tenantStore, backend>>

\* handleSubmit: await fetchLeads(), where an earlier fetchLeads holds the
\* guard: fetchLeads returns at once and so does handleSubmit
SubmitSkipsFetch ==
    /\ leadsPage.submit = "cleared"
    /\ leadsPage.fetchingRef
    /\ leadsPage' = [leadsPage EXCEPT !.submit = "done"]
    /\ UNCHANGED <<requestCache, abortControllers, calls, microtasks, now, rnd, ticks,
                   clears, world, tenantStore, backend>>

\* handleSubmit: await fetchLeads(), where the guard is free
SubmitFetchLeads ==
    /\ leadsPage.submit = "cleared"
    /\ ~leadsPage.fetchingRef
    /\ ApiRequest(GET, ApiLeads, TokenAbc, EmptyStr, FALSE)
    /\ leadsPage' = LeadsPageAfter([Started(leadsPage, Len(calls) + 1)
                                       EXCEPT !.submit = "refetching"], calls')
    /\ UNCHANGED <<tenantStore, backend>>

LeadsFetchSettles(i, outcome) ==
    /\ NoHandlerMidRun
    /\ FetchSettles(i, outcome)
    /\ leadsPage' = LeadsPageAfter(leadsPage, calls')
    /\ UNCHANGED <<tenantStore, backend>>

LeadsBodySettles(i, body) ==
    /\ NoHandlerMidRun
    /\ BodySettles(i, body)
    /\ leadsPage' = LeadsPageAfter(leadsPage, calls')
    /\ UNCHANGED <<tenantStore, backend>>

LeadsNext ==
    \/ FetchLeads
    \/ HandleSubmit
    \/ SubmitClearCache
    \/ SubmitSkipsFetch
    \/ SubmitFetchLeads
    \/ \E i \in Ids, o \in FetchOutcomes : LeadsFetchSettles(i, o)
    \/ \E i \in Ids, b \in Bodies : LeadsBodySettles(i, b)

LeadsSpec == LeadsInit /\ [][LeadsNext]_vars


(***************************************************************************)
(* Shapes of calls the properties speak of.                                *)
(***************************************************************************)
IsGet(c) == c.method = GET
DefaultKeyed(c) == c.cacheKey = EmptyStr
DefaultGet(c) == IsGet(c) /\ DefaultKeyed(c)
Fetching(c) == c.pc = "fetching"
Cancelled(c) == Settled(c) /\ c.result = ErrorResult(MsgCancelled)
FromNetwork(i) == calls[i].result = DataResult(i, "network", 0)
\* the call rejected with what the network or the backend answered
NetworkError(c) ==
    c.result.kind = "error" /\ c.result.msg # MsgCancelled
SameKeyCalls(k) == {i \in Ids : calls[i].key = k}

TypeOK ==
    /\ \A i \in Ids : calls[i].pc \in {"fetching", "decoding", "settled"}
    /\ \A k \in DOMAIN abortControllers : abortControllers[k] \in Ids
    /\ \A i \in 1..Len(microtasks) : microtasks[i] \in Ids
    /\ \A i \in Ids : Settled(calls[i]) <=> calls[i].result.kind # "none"
    \* a stored controller belongs to a call whose fetch is pending
    /\ \A k \in DOMAIN abortControllers :
          Fetching(calls[abortControllers[k]]) /\ ~calls[abortControllers[k]].aborted

ConcurrentDefaultGets(i, j) ==
    /\ i < j
    /\ IsGet(calls[i]) /\ IsGet(calls[j])
    /\ DefaultKeyed(calls[i]) /\ DefaultKeyed(calls[j])
    /\ calls[i].key = calls[j].key
    /\ i \in calls[j].live

(***************************************************************************)
(* C1.  Two GETs to the same endpoint with the same token and no cacheKey  *)
(* that are in flight together never cancel each other: neither is         *)
(* aborted, neither settles with 'Request cancelled', and each settles     *)
(* with what the network answered it or from the cache.                    *)
(***************************************************************************)
C1_NoGetSelfCancellation ==
    \A i, j \in Ids :
        ConcurrentDefaultGets(i, j) =>
            \A x \in {i, j} :
                /\ ~calls[x].aborted
                /\ ~Cancelled(calls[x])
                /\ Settled(calls[x]) =>
                       \/ FromNetwork(x)
                       \/ NetworkError(calls[x])
                       \/ calls[x].result.src = "cache"

C1_Witness ==
    \E i, j \in Ids :
        /\ ConcurrentDefaultGets(i, j)
        /\ FromNetwork(i) /\ FromNetwork(j)
        /\ \E k \in Ids : calls[k].aborted

BackToBackPosts(i, j) ==
    /\ i < j
    /\ ~IsGet(calls[i]) /\ ~IsGet(calls[j])
    /\ ~DefaultKeyed(calls[i])
    /\ calls[i].cacheKey = calls[j].cacheKey
    /\ i \in calls[j].live
    /\ SameKeyCalls(calls[i].key) = {i, j}

C3_OneLiveCallPerExplicitKey ==
    \A i, j \in Ids :
        /\ i < j
        /\ ~DefaultKeyed(calls[i])
        /\ calls[i].cacheKey = calls[j].cacheKey
        /\ ~IsGet(calls[j])
        /\ Fetching(calls[i]) /\ Fetching(calls[j])
        => calls[i].aborted \/ calls[j].aborted

UnlabelledMutations(i, j) ==
    /\ i < j
    /\ ~IsGet(calls[i]) /\ ~IsGet(calls[j])
    /\ DefaultKeyed(calls[i]) /\ DefaultKeyed(calls[j])
    /\ calls[i].endpoint = calls[j].endpoint
    /\ calls[i].token = calls[j].token

(***************************************************************************)
(* C4.  Two mutating calls to one endpoint with one token and no cacheKey  *)
(* get different keys and never abort each other, also when they start at  *)
(* the same Date.now().                                                    *)
(***************************************************************************)
C4_UnlabelledMutationsNeverCollide ==
    \A i, j \in Ids :
        UnlabelledMutations(i, j) =>
            /\ calls[i].key # calls[j].key
            /\ calls[i].abortedBy # j
            /\ calls[j].abortedBy # i
            /\ \A x \in {i, j} : calls[x].aborted => calls[x].abortedBy = ByCancelAll

C4_Witness ==
    \E i, j \in Ids :
        /\ UnlabelledMutations(i, j)
        /\ i \in calls[j].live
        /\ FromNetwork(i) /\ FromNetwork(j)

CallStarts == Len(calls') = Len(calls) + 1
NewCall == calls'[Len(calls')]

(***************************************************************************)
(* C5.  A GET that reads the cache and whose key has an entry stored at T  *)
(* is answered with that entry's payload, without a network call, when     *)
(* now - T < 30 s, and issues a network call when now - T >= 30 s.  The    *)
(* miss leaves the entry in place: an entry changes only when a successful *)
(* GET under its key writes it, and disappears only in clearCache.         *)
(***************************************************************************)
C5_ReadStep ==
    CallStarts /\ UsesCache(NewCall.method, NewCall.skipCache)
               /\ MapHas(requestCache, NewCall.key) =>
        LET entry == requestCache[NewCall.key]
        IN /\ requestCache' = requestCache
           /\ IF now - entry.timestamp < CACHE_TTL
              THEN /\ Settled(NewCall)
                   /\ NewCall.result.kind = "data"
                   /\ NewCall.result.data = entry.data
                   /\ NewCall.result.src = "cache"
              ELSE Fetching(NewCall)

C5_EntryStep ==
    \A k \in DOMAIN requestCache :
        /\ ~MapHas(requestCache', k) => Len(clears') = Len(clears) + 1
        /\ MapHas(requestCache', k) /\ requestCache'[k] # requestCache[k] =>
               \E i \in Ids :
                   /\ calls[i].key = k
                   /\ calls[i].pc = "decoding" /\ calls'[i].pc = "settled"
                   /\ calls'[i].result = DataResult(i, "network", 0)
                   /\ requestCache'[k] = [data |-> i, timestamp |-> now]

\* C5: every step reads the cache by the 30 s rule, and changes an entry only
\* by a successful GET's write under its key or by clearCache
C5_CacheTTL == [][C5_ReadStep /\ C5_EntryStep]_vars

\* a cache hit, and a GET fetching anew over an expired entry still in place
C5_Witness ==
    \E i, j \in Ids :
        /\ calls[i].result.src = "cache"
        /\ IsGet(calls[j]) /\ ~calls[j].skipCache /\ Fetching(calls[j])
        /\ MapHas(requestCache, calls[j].key)
        /\ now - requestCache[calls[j].key].timestamp >= CACHE_TTL
        /\ requestCache[calls[j].key].data < j

ServedFromCache(c) == c.result.kind = "data" /\ c.result.src \in {"cache", "fallback"}

(***************************************************************************)
(* C6.  Every payload apiRequest returns from the cache, by the cache hit  *)
(* or by the fallback of an aborted GET, comes from an entry with          *)
(* now - storedAt < 30 s.                                                  *)
(***************************************************************************)
C6_NoExpiredEntryServed ==
    \A i \in Ids : ServedFromCache(calls[i]) => calls[i].result.age < CACHE_TTL

Matches(key, pattern) == pattern = EmptyStr \/ Includes(key, pattern)

(***************************************************************************)
(* C7.  After clearCache(p), a GET (default key, cache not skipped) whose  *)
(* key contains p misses the cache and fetches; a GET whose key does not   *)
(* contain p is still served its valid entry.  Stated here by what the     *)
(* claim implies: such a GET is never served, from the cache, a payload    *)
(* that was requested before the clearCache.                               *)
(***************************************************************************)
C7_NoPayloadFromBeforeClear ==
    \A n \in 1..Len(clears) : \A g \in Ids :
        /\ calls[g].clearsBefore >= n
        /\ IsGet(calls[g]) /\ DefaultKeyed(calls[g]) /\ ~calls[g].skipCache
        /\ Matches(calls[g].key, clears[n].pattern)
        /\ calls[g].result.src = "cache"
        => calls[calls[g].result.data].clearsBefore >= n

ClearStep == Len(clears') = Len(clears) + 1

(***************************************************************************)
(* C8.  clearCache(pattern) deletes exactly the entries whose key contains *)
(* pattern and leaves the others as they are; clearCache() empties the     *)
(* cache; neither touches the registry nor aborts a call.                  *)
(***************************************************************************)
C8_ClearStep ==
    ClearStep =>
        LET p == clears'[Len(clears')].pattern
        IN /\ IF p = EmptyStr
              THEN DOMAIN requestCache' = {}
              ELSE /\ DOMAIN requestCache' =
                          {k \in DOMAIN requestCache : ~Includes(k, p)}
                   /\ \A k \in DOMAIN requestCache' : requestCache'[k] = requestCache[k]
           /\ abortControllers' = abortControllers
           /\ calls' = calls
           /\ microtasks' = microtasks

\* C8: every clearCache step removes exactly the matching entries and leaves
\* the registry, the calls and the queued rejections alone
C8_ClearCacheFrame == [][C8_ClearStep]_vars

\* a clearCache('/api/leads') that removed an entry while a call held a handle
C8_Witness ==
    /\ Len(clears) > 0
    /\ clears[1].pattern = ApiLeads
    /\ abortControllers # EmptyMap
    /\ \E i \in Ids :
          /\ FromNetwork(i) /\ UsesCache(calls[i].method, calls[i].skipCache)
          /\ calls[i].clearsBefore = 0
          /\ ~MapHas(requestCache, calls[i].key)
    /\ \E i \in Ids : calls[i].clearsBefore = 0 /\ Fetching(calls[i]) /\ ~calls[i].aborted
                      /\ MapHas(abortControllers, calls[i].key)

(***************************************************************************)
(* C9.  An aborted call that is not a GET rejects with 'Request            *)
(* cancelled' and never resolves with a cached payload, whatever the cache *)
(* holds, whatever skipCache is, and also under an explicit cacheKey that  *)
(* is the key of a cached GET.                                             *)
(***************************************************************************)
C9_AbortedMutationRejects ==
    \A i \in Ids :
        ~IsGet(calls[i]) /\ calls[i].aborted /\ Settled(calls[i]) => Cancelled(calls[i])

\* an aborted POST settled as cancelled while the cache holds an entry under its key
C9_Witness ==
    \E i \in Ids :
        /\ ~IsGet(calls[i]) /\ calls[i].aborted /\ Cancelled(calls[i])
        /\ ~calls[i].skipCache
        /\ MapHas(requestCache, calls[i].key)

CatchStep == microtasks # << >> /\ microtasks' = Tail(microtasks)
Caught == Head(microtasks)

(***************************************************************************)
(* C10.  An aborted GET with the cache not skipped resolves with the       *)
(* cached payload of its base key (the key less its last colon-separated   *)
(* part) if the cache holds one and otherwise rejects with 'Request        *)
(* cancelled'; an aborted GET with skipCache always rejects.               *)
(***************************************************************************)
C10_AsClaimed ==
    CatchStep /\ IsGet(calls[Caught]) =>
        LET c == calls[Caught]
            r == calls'[Caught].result
        IN IF ~c.skipCache /\ MapHas(requestCache, BaseKey(c.key))
           THEN r.kind = "data" /\ r.data = requestCache[BaseKey(c.key)].data
           ELSE r = ErrorResult(MsgCancelled)

C10_Amended ==
    CatchStep /\ IsGet(calls[Caught]) =>
        LET c == calls[Caught]
            r == calls'[Caught].result
        IN IF ~c.skipCache /\ MapHas(requestCache, BaseKey(c.key))
           THEN r.kind = "data" /\ r.data = requestCache[BaseKey(c.key)].data
           ELSE IF ~c.skipCache /\ MapHas(requestCache, c.key)
           THEN r.kind = "data" /\ r.data = requestCache[c.key].data
           ELSE r = ErrorResult(MsgCancelled)

NonOk(c) == c.status \in {"400", "500"}

(***************************************************************************)
(* C11.  A call answered with a non-2xx status rejects with an Error whose *)
(* message is the error body's detail if it has one, else its message if   *)
(* it has one, else 'HTTP {status}'; a body that is not JSON counts as an  *)
(* empty object.                                                           *)
(***************************************************************************)
C11_ErrorMessageExtraction ==
    \A i \in Ids :
        Settled(calls[i]) /\ NonOk(calls[i]) =>
            /\ calls[i].result.kind = "error"
            /\ calls[i].body \in {"detail", "both"} =>
                   calls[i].result.msg = "Invalid email"
            /\ calls[i].body = "message" => calls[i].result.msg = "Bad Request"
            /\ calls[i].body \in {"empty", "unparseable"} =>
                   calls[i].result.msg = HttpPrefix \o calls[i].status

\* a 400 with both fields rejected with the detail, a 500 with an unparseable
\* body rejected with 'HTTP 500'
C11_Witness ==
    \E i, j \in Ids :
        /\ calls[i].status = "400" /\ calls[i].body = "both"
        /\ calls[i].result.msg = "Invalid email"
        /\ calls[j].status = "500" /\ calls[j].body = "unparseable"
        /\ calls[j].result.msg = "HTTP 500"

(***************************************************************************)
(* C12.  A call that fails on a non-2xx status leaves the cache as it was: *)
(* no entry is written, and an entry already under its key is neither      *)
(* overwritten nor removed.                                                *)
(***************************************************************************)
C12_Step ==
    \A i \in Ids :
        NonOk(calls'[i]) /\ calls'[i] # calls[i] => requestCache' = requestCache

\* C12: no step of a call answered with a non-2xx status changes the cache
C12_FailureLeavesCache == [][C12_Step]_vars

\* a GET rejected on a 400 while the cache holds an entry under its key
C12_Witness ==
    \E i \in Ids :
        /\ Settled(calls[i]) /\ NonOk(calls[i])
        /\ UsesCache(calls[i].method, calls[i].skipCache)
        /\ calls[i].result.kind = "error"
        /\ MapHas(requestCache, calls[i].key)
        /\ requestCache[calls[i].key].data # i

ReadsAndWrites(c) == IsGet(c) /\ ~c.skipCache

C13_Step ==
    /\ \A k \in DOMAIN requestCache' :
          ~MapHas(requestCache, k) \/ requestCache'[k] # requestCache[k] =>
              \E i \in Ids :
                  /\ ReadsAndWrites(calls[i]) /\ calls[i].key = k
                  /\ ~Settled(calls[i]) /\ Settled(calls'[i])
    /\ \A i \in DOMAIN calls' :
          ~ReadsAndWrites(calls'[i]) /\ Settled(calls'[i]) =>
              \/ calls'[i].result.kind = "error"
              \/ calls'[i].result = DataResult(i, "network", 0)

(***************************************************************************)
(* C13.  Only GET calls without skipCache read or write the cache: an      *)
(* entry is written only by such a call as it settles, and every other     *)
(* call (a GET with skipCache, a POST whatever its options) settles with   *)
(* its own network payload or an error, never with a cached payload.       *)
(***************************************************************************)
C13_CacheOnlyForGets == [][C13_Step]_vars

\* a GET with skipCache got its own payload from the network and left the
\* older entry under its key in place
C13_Witness ==
    \E i \in Ids :
        /\ IsGet(calls[i]) /\ calls[i].skipCache
        /\ FromNetwork(i)
        /\ MapHas(requestCache, calls[i].key)
        /\ requestCache[calls[i].key].data < i
        /\ now - requestCache[calls[i].key].timestamp < CACHE_TTL

CancelAllStep == \E i \in Ids : ~calls[i].aborted /\ calls'[i].abortedBy = ByCancelAll

C14_Step ==
    CancelAllStep =>
        /\ \A i \in Ids : ~Settled(calls[i]) => calls'[i].aborted
        /\ abortControllers' = EmptyMap

(***************************************************************************)
(* C14.  cancelAllRequests() aborts every call that has been issued and    *)
(* has not settled, whatever its method and key, and leaves the registry   *)
(* empty.                                                                  *)
(***************************************************************************)
C14_CancelAllCancelsAll == [][C14_Step]_vars

\* the part of the token that reaches the key: the head of the Authorization header
TokenPrefix(c) == Substring0(AuthHeader(c.token), AuthHashLen)

\* the key of a call as it starts, beside the keys of the calls before it
C15_KeyStep ==
    CallStarts =>
        LET c == NewCall
        IN /\ ~DefaultKeyed(c) => c.key = c.cacheKey
           /\ DefaultGet(c) =>
                 \A i \in Ids :
                     DefaultGet(calls[i]) =>
                         (calls[i].key = c.key <=>
                             /\ calls[i].endpoint = c.endpoint
                             /\ TokenPrefix(calls[i]) = TokenPrefix(c))
           /\ \A i \in Ids :
                 (~IsGet(c) /\ DefaultKeyed(c)) \/ (~IsGet(calls[i]) /\ DefaultKeyed(calls[i]))
                     => calls[i].key # c.key
           /\ \A i \in Ids : calls'[i].key = calls[i].key

C15_UseStep ==
    /\ CallStarts /\ ~DefaultKeyed(NewCall) /\ Fetching(NewCall) =>
          /\ MapHas(abortControllers', NewCall.cacheKey)
          /\ abortControllers'[NewCall.cacheKey] = Len(calls')
    /\ \A i \in Ids :
          /\ ~DefaultKeyed(calls[i]) /\ IsGet(calls[i]) /\ ~calls[i].skipCache
          /\ ~Settled(calls[i]) /\ calls'[i].result = DataResult(i, "network", 0)
          => /\ MapHas(requestCache', calls[i].cacheKey)
             /\ requestCache'[calls[i].cacheKey].data = i

(***************************************************************************)
(* C15.  Key derivation: an explicit cacheKey is the key, verbatim, in the *)
(* cache and in the registry; two GETs without one have the same key       *)
(* exactly when they have the same endpoint and the same token prefix,     *)
(* whenever they are made; the key of a mutating call without cacheKey is  *)
(* no other call's key.                                                    *)
(***************************************************************************)
C15_KeyDerivation == [][C15_KeyStep /\ C15_UseStep]_vars

\* a GET under one token served, 29 s later, from the entry a GET under
\* another token with the same prefix had written
C15_Witness ==
    \E i, j \in Ids :
        /\ calls[i].token = TokenJwtA /\ calls[j].token = TokenJwtB
        /\ calls[i].key = calls[j].key
        /\ calls[j].result.src = "cache"
        /\ calls[j].result.data = i
        /\ calls[j].result.age > 0

(***************************************************************************)
(* C16.  A call resolves only by a valid cache hit, by a 2xx response      *)
(* whose body decoded, or, an aborted GET, by the cache fallback; a fetch  *)
(* that fails in transport without being aborted rejects the call with     *)
(* the very error object fetch threw.                                      *)
(***************************************************************************)
C16_ResolvesInThreeCases ==
    \A i \in Ids :
        LET c == calls[i]
        IN /\ c.result.kind = "data" =>
                 \/ /\ c.result.src = "cache"
                    /\ IsGet(c) /\ ~c.skipCache /\ c.result.age < CACHE_TTL
                 \/ /\ c.result.src = "network"
                    /\ c.status = "200" /\ c.body = "json" /\ c.result.data = i
                 \/ /\ c.result.src = "fallback"
                    /\ IsGet(c) /\ ~c.skipCache /\ c.aborted
           /\ Settled(c) /\ c.status = "failed" =>
                 /\ c.result.kind = "error"
                 /\ c.result.msg = FailedToFetch.msg
                 /\ c.result.by = "fetch"

\* a call rejected with fetch's own error beside one that resolved from the
\* network and one that was cancelled
C16_Witness ==
    \E i, j, k \in Ids :
        /\ calls[i].status = "failed" /\ calls[i].result.by = "fetch"
        /\ FromNetwork(j)
        /\ Cancelled(calls[k])

C17_Step ==
    \A k \in DOMAIN abortControllers :
        ~MapHas(abortControllers', k) =>
            LET owner == abortControllers[k]
            IN \/ calls'[owner].pc # calls[owner].pc
               \/ calls'[owner].abortedBy = ByCancelAll

(***************************************************************************)
(* C17.  A handle leaves the registry only through the call that           *)
(* registered it (when its request completes, or by cancelAllRequests) or  *)
(* by being replaced: the settlement of one call never removes the handle  *)
(* of another call that is still outstanding.                              *)
(***************************************************************************)
C17_HandleRemovedByOwnerOnly == [][C17_Step]_vars

StoresHandle(c) == ~IsGet(c) \/ ~DefaultKeyed(c)
Quiescent == \A i \in Ids : Settled(calls[i])

C18_Step ==
    \A i \in Ids :
        StoresHandle(calls[i]) /\ Fetching(calls[i]) /\ ~Fetching(calls'[i]) =>
            ~MapHas(abortControllers', calls[i].key)

(***************************************************************************)
(* C18.  A call that stored a handle deletes its key from the registry     *)
(* when its fetch is over, whatever the outcome; so the registry is empty  *)
(* whenever no call is outstanding.                                        *)
(***************************************************************************)
C18_NoHandleLeak == [][C18_Step /\ (Quiescent' => abortControllers' = EmptyMap)]_vars

\* all calls over, one of them cancelled by a newer one and one failed in
\* transport, and the registry is empty
C18_Witness ==
    /\ Quiescent
    /\ abortControllers = EmptyMap
    /\ \E i, j \in Ids :
          /\ StoresHandle(calls[i]) /\ Cancelled(calls[i])
          /\ StoresHandle(calls[j]) /\ calls[j].status = "failed"

C19_Step ==
    /\ CallStarts /\ DefaultGet(NewCall) =>
          /\ abortControllers' = abortControllers
          /\ microtasks' = microtasks
          /\ \A j \in Ids : calls'[j] = calls[j]
    /\ \A i \in Ids :
          DefaultGet(calls[i]) /\ calls'[i] # calls[i] =>
              /\ abortControllers' = abortControllers
              /\ \A j \in Ids : calls'[j].aborted = calls[j].aborted

C19_Owners ==
    \A k \in DOMAIN abortControllers : StoresHandle(calls[abortControllers[k]])

(***************************************************************************)
(* C19.  A GET without cacheKey never touches the registry and aborts no   *)
(* controller: none of its steps changes abortControllers or aborts a      *)
(* call, and every registry entry belongs to a call that is not a GET or   *)
(* has an explicit cacheKey.                                               *)
(***************************************************************************)
C19_DefaultGetLeavesRegistry == [][C19_Step /\ C19_Owners']_vars

\* a GET without cacheKey started and settled while the registry held the
\* handle of an older call, still there
C19_Witness ==
    \E i \in Ids : \E k \in DOMAIN abortControllers :
        /\ DefaultGet(calls[i]) /\ FromNetwork(i)
        /\ abortControllers[k] < i
        /\ calls[abortControllers[k]].endpoint = calls[i].endpoint

C20_Step ==
    \A i \in Ids :
        /\ ReadsAndWrites(calls[i])
        /\ ~Settled(calls[i]) /\ calls'[i].result = DataResult(i, "network", 0)
        => /\ MapHas(requestCache', calls[i].key)
           /\ requestCache'[calls[i].key] = [data |-> i, timestamp |-> now]
           /\ \A j \in Ids \ {i} : calls'[j] = calls[j]

C20_Entries ==
    \A k \in DOMAIN requestCache :
        /\ requestCache[k].data \in Ids
        /\ FromNetwork(requestCache[k].data)
        /\ calls[requestCache[k].data].key = k
        /\ requestCache[k].timestamp <= now

(***************************************************************************)
(* C20.  Two GETs that use the cache, have the same key and are in flight  *)
(* together both run to completion and both write the cache: each write    *)
(* replaces whatever entry is there with the writer's payload and the time *)
(* of the write, so the entry left is that of the call that resolved       *)
(* later, whichever started first.                                         *)
(***************************************************************************)
C20_LastWriteWins == [][C20_Step /\ C20_Entries']_vars

\* of two concurrent GETs the one started first resolved last, after a clock
\* step, and its payload and time are in the cache
C20_Witness ==
    \E i, j \in Ids :
        /\ i < j /\ i \in calls[j].live
        /\ ReadsAndWrites(calls[i]) /\ ReadsAndWrites(calls[j])
        /\ calls[i].key = calls[j].key
        /\ FromNetwork(i) /\ FromNetwork(j)
        /\ MapHas(requestCache, calls[i].key)
        /\ requestCache[calls[i].key].data = i
        /\ requestCache[calls[i].key].timestamp > 0

C21_Step ==
    /\ CallStarts =>
          \/ Fetching(NewCall) /\ NewCall.result = NoResult
          \/ /\ Settled(NewCall) /\ NewCall.result.src = "cache"
             /\ NewCall.status = ""
             /\ abortControllers' = abortControllers
    /\ \A i \in Ids :
          /\ Settled(calls[i]) => calls'[i] = calls[i]
          /\ ~Settled(calls[i]) => calls[i].result = NoResult
          /\ Settled(calls'[i]) => calls'[i].result.kind \in {"data", "error"}
          /\ calls[i].pc = "decoding" => calls'[i].pc \in {"decoding", "settled"}

Hangs(i) == i \in Ids /\ calls[i].aborted /\ ~Settled(calls[i])

(***************************************************************************)
(* C21.  A call is pending, then either a cache hit (settled at once with  *)
(* the cached payload, no fetch issued) or in flight, then settles once    *)
(* and for all with data or an error; and a call whose controller is       *)
(* aborted eventually settles.                                             *)
(***************************************************************************)
C21_CallLifecycle ==
    /\ [][C21_Step]_vars
    /\ \A i \in 1..(MaxCalls + 1) : Hangs(i) ~> ~Hangs(i)

\* a cancelled call has settled beside a call that was a cache hit
C21_Witness ==
    \E i, j \in Ids :
        /\ calls[i].aborted /\ Cancelled(calls[i])
        /\ calls[j].result.src = "cache" /\ calls[j].status = ""

C22_Step ==
    CallStarts =>
        \A i \in Ids :
            Fetching(calls[i]) /\ calls[i].key = NewCall.key => calls'[i].aborted

(***************************************************************************)
(* C22.  In the earlier revision, a call that starts aborts every call     *)
(* with its key that is still in flight.                                   *)
(***************************************************************************)
C22_OldStartAbortsSameKey == [][C22_Step]_vars

(***************************************************************************)
(* C23.  A GET never returns a payload that a call made with another       *)
(* bearer token fetched: every payload a GET resolves with, from the       *)
(* network, from the cache or by the abort fallback, was fetched by a call *)
(* carrying the same token.                                                *)
(***************************************************************************)
C23_NoPayloadAcrossTokens ==
    \A j \in Ids :
        IsGet(calls[j]) /\ calls[j].result.kind = "data"
            => calls[calls[j].result.data].token = calls[j].token

\* the clearCache() of setActiveTenant has been called
SwitchCleared == tenantStore.pc \in {"cleared", "refreshing", "resolved"} /\ clears # << >>

(***************************************************************************)
(* C24.  Once setActiveTenant(id) has cleared the cache, no GET issued     *)
(* afterwards is answered from the cache with a payload the backend made   *)
(* under another organisation than id.                                     *)
(***************************************************************************)
C24_NoPayloadOfPreviousTenant ==
    SwitchCleared =>
        \A j \in Ids :
            /\ IsGet(calls[j])
            /\ j > clears[1].calls
            /\ calls[j].result.kind = "data"
            /\ calls[j].result.src = "cache"
            => backend.served[calls[j].result.data].tenant = tenantStore.id

(***************************************************************************)
(* C28.  When setActiveTenant(id) has returned without throwing, the       *)
(* store's activeTenantId is id, whatever became of the refresh of the     *)
(* tenant list.                                                            *)
(***************************************************************************)
C28_ResolvedSwitchHoldsId ==
    tenantStore.pc = "resolved" => tenantStore.activeTenantId = tenantStore.id

(***************************************************************************)
(* C27.  Once handleSubmit has created a lead and returned (the POST       *)
(* resolved, the cache cleared, fetchLeads awaited) with no error shown,   *)
(* the list in the page's state was fetched by a GET issued after the POST *)
(* completed.                                                              *)
(***************************************************************************)
C27_ListRefetchedAfterSubmit ==
    leadsPage.submit = "done" /\ leadsPage.error = Null
        => leadsPage.leads > leadsPage.callsAtPost

\* the requests of fetchLeads that have not settled
PendingFetches == {i \in leadsPage.requests : ~Settled(calls[i])}

C25_Step ==
    CallStarts /\ IsGet(NewCall) /\ ~DefaultKeyed(NewCall)
               /\ NewCall.result.src = "cache"
        => /\ abortControllers' = abortControllers
           /\ microtasks' = microtasks
           /\ \A i \in Ids : calls'[i] = calls[i]

(***************************************************************************)
(* C25.  A GET with an explicit cacheKey that is answered from the cache   *)
(* leaves the registry as it was and aborts nothing: every earlier call,   *)
(* one in flight under the same key included, is as it was.                *)
(***************************************************************************)
C25_CacheHitLeavesRegistry == [][C25_Step]_vars

\* a GET answered from the cache under the key of a call that is in flight,
\* holds the handle and has not been aborted
C25_Witness ==
    \E i, j \in Ids :
        /\ i < j
        /\ calls[i].key = calls[j].key
        /\ ~DefaultKeyed(calls[j]) /\ IsGet(calls[j])
        /\ calls[j].result.src = "cache"
        /\ Fetching(calls[i]) /\ ~calls[i].aborted
        /\ MapHas(abortControllers, calls[i].key)
        /\ abortControllers[calls[i].key] = i

C26_Step ==
    \A i \in Ids :
        /\ calls[i].pc = "decoding" /\ calls[i].ok
        /\ calls'[i].pc = "settled" /\ calls'[i].body = "unparseable"
        => /\ calls'[i].result = Rethrown(NotJson)
           /\ calls'[i].result.kind = "error"
           /\ requestCache' = requestCache
           /\ \A k \in DOMAIN abortControllers' : abortControllers'[k] # i

(***************************************************************************)
(* C26.  A call whose response has a 2xx status and a body that is not     *)
(* JSON rejects with the error response.json() threw, leaves every cache   *)
(* entry as it was and holds no handle in the registry afterwards.         *)
(***************************************************************************)
C26_UndecodableBodyRejects == [][C26_Step]_vars

\* two calls with a 2xx response and an undecodable body have rejected: a GET
\* under whose key another call's entry is still in the cache, and a
\* mutation that had stored a handle
C26_Witness ==
    \E i, j \in Ids :
        /\ calls[i].ok /\ calls[i].body = "unparseable"
        /\ IsGet(calls[i])
        /\ MapHas(requestCache, calls[i].key)
        /\ requestCache[calls[i].key].data # i
        /\ calls[j].ok /\ calls[j].body = "unparseable"
        /\ StoresHandle(calls[j])

(***************************************************************************)
(* C30.  In the earlier revision, a GET made through apiGet with skipCache *)
(* is never answered from the cache.                                       *)
(***************************************************************************)
C30_OldSkipCacheNeverServed ==
    \A j \in Ids :
        IsGet(calls[j]) /\ calls[j].skipCache => calls[j].result.src # "cache"

=============================================================================
